---- MODULE Spec2Model ----
(***************************************************************************)
(* Model of brickschema.persistent: the Changeset scope and the            *)
(* VersionedGraphCollection (commit, undo, redo, versions, graph_at) over  *)
(* the two log tables `changesets` and `redos` and the live rdflib store.  *)
(***************************************************************************)
EXTENDS Integers, Sequences, FiniteSets, TLC

(* ------------------------------ bounds -------------------------------- *)

\* number of Changeset objects (new_changeset scopes) opened in a behaviour
MaxChangesets == 3
\* number of rows of the two tables together, the triples buffered in the
\* open scope counted as the rows they become
MaxRows == 3
\* number of scopes opened in a behaviour of the collection with hooks
MaxHookScopes == 2
\* number of scopes opened in a behaviour of the other collections
MaxScopes == 2
\* the largest timestamp a caller passes as ts
MaxTs == 2

(* ------------------------------ values -------------------------------- *)

\* the triples the callers use: (ex:a, p, o) and (ex:a, p, o2)
Triples == { <<"a", "p", "o">>, <<"a", "p", "o2">> }
\* the named graphs of the store
GraphNames == { "g1", "g2" }
\* the named graph the callers commit to (the tests' "abc")
ScopeGraphs == { "g1" }
\* ConjunctiveGraph.default_context, a graph of its own (BNode identifier)
DefaultCtx == "default"
Contexts == GraphNames \cup { DefaultCtx }
\* graph=None of graph_at / _graph_at
NoGraph == "None"
\* timestamp of "no row" (fetchone() returned None)
NoTs == -1
\* the order in which the database returns rows that tie on ORDER BY timestamp
TieOrders == { "rowid_asc", "rowid_desc" }

VARIABLES
    live,              \* the rdflib store: context -> set of triples
    changesets,        \* table changesets, in rowid order
    redos,             \* table redos, in rowid order
    cs,                \* the Changeset of the open new_changeset scope, or NoCs
    precommit_hooks,   \* self._precommit_hooks (OrderedDict), as a sequence
    postcommit_hooks,  \* self._postcommit_hooks (OrderedDict), as a sequence
    now,               \* datetime.now() of the next commit that writes rows
    uid,               \* number of Changeset ids handed out (uuid.uuid4())
    outcome,           \* what the caller saw of the last operation
    hist,              \* history of the behaviour (counters, snapshots)
    scope_ts,          \* the ts argument of the open new_changeset call
    returned           \* the Graph the last graph_at call returned

vars == << live, changesets, redos, cs, precommit_hooks, postcommit_hooks,
           now, uid, outcome, hist, scope_ts, returned >>

(* ------------------------- sequences, rows ----------------------------- *)

Range(s) == { s[i] : i \in 1..Len(s) }

RECURSIVE Reverse(_)
Reverse(s) == IF s = << >> THEN << >> ELSE Reverse(Tail(s)) \o << Head(s) >>

\* pickle.dumps / pickle.loads of a triple
pickle_dumps(triple) == << "pickle", triple >>
pickle_loads(blob) == blob[2]

\* one row of changesets / redos
Row(id, ts, graph, is_insertion, triple) ==
    [ id |-> id, timestamp |-> ts, graph |-> graph,
      is_insertion |-> is_insertion, triple |-> pickle_dumps(triple) ]

RECURSIVE SelectRows(_, _)
\* SELECT * FROM table WHERE row \in keep, in rowid order
SelectRows(table, keep) ==
    IF table = << >> THEN << >>
    ELSE IF Head(table) \in keep
         THEN << Head(table) >> \o SelectRows(Tail(table), keep)
         ELSE SelectRows(Tail(table), keep)

\* SELECT * FROM table WHERE id = :id
RowsOfId(table, id) == SelectRows(table, { r \in Range(table) : r.id = id })
\* mutant: the DELETE ... WHERE id = :id of a move is left out
RowsNotOfId_NoDelete(table, id) == table
\* DELETE FROM table WHERE id = :id: the rows that stay
RowsNotOfId(table, id) == SelectRows(table, { r \in Range(table) : r.id # id })

Timestamps(table) == { r.timestamp : r \in Range(table) }
MaxOf(S) == CHOOSE x \in S : \A y \in S : y <= x
MinOf(S) == CHOOSE x \in S : \A y \in S : x <= y

RECURSIVE OrderByTimestamp(_, _, _)
\* ORDER BY timestamp (DESC when desc), rows that tie in the order `ord`
OrderByTimestamp(table, desc, ord) ==
    IF table = << >> THEN << >>
    ELSE LET t == IF desc THEN MaxOf(Timestamps(table)) ELSE MinOf(Timestamps(table))
             tie == SelectRows(table, { r \in Range(table) : r.timestamp = t })
             rest == SelectRows(table, { r \in Range(table) : r.timestamp # t })
         IN (IF ord = "rowid_asc" THEN tie ELSE Reverse(tie))
            \o OrderByTimestamp(rest, desc, ord)

(* --------------------------- rdflib store ------------------------------ *)

EmptyStore == [ c \in Contexts |-> {} ]

\* Graph.add on self.get_context(name): the triple goes into that context
ContextAdd(store, ctx, triple) == [ store EXCEPT ![ctx] = @ \cup { triple } ]
\* Graph.remove on self.get_context(name): out of that context only
ContextRemove(store, ctx, triple) == [ store EXCEPT ![ctx] = @ \ { triple } ]
\* ConjunctiveGraph.add of a 3-tuple: into the default context
ConjunctiveAdd(store, triple) == ContextAdd(store, DefaultCtx, triple)
\* ConjunctiveGraph.remove of a 3-tuple: out of every context
ConjunctiveRemove(store, triple) == [ c \in DOMAIN store |-> store[c] \ { triple } ]
\* ConjunctiveGraph.triples((None, None, None)): the union of the contexts
AllTriples(store) == UNION { store[c] : c \in DOMAIN store }
\* VersionedGraphCollection.__len__
GraphLen(store) == Cardinality(AllTriples(store))

(* ----------------------- the collection's state ------------------------ *)

\* the store and the two tables, as the operations read and write them
State(l, c, r) == [ live |-> l, changesets |-> c, redos |-> r ]
\* an operation's result: the state it leaves and the exception it raised
Result(st, error) ==
    [ live |-> st.live, changesets |-> st.changesets, redos |-> st.redos,
      error |-> error ]
StateOf(res) == State(res.live, res.changesets, res.redos)

NoError == "none"
\* Exception("No changesets to undo") / Exception("No changesets to redo")
NoHistoryError == "Exception: No changesets"
\* version_before: res[0] with res = None
TypeError == "TypeError: NoneType is not subscriptable"
\* an exception raised by the caller's code inside the scope
ScopeError == "exception raised in scope"
\* an exception raised by a registered hook
PreHookError == "exception raised by pre-commit hook"
PostHookError == "exception raised by post-commit hook"
\* an exception raised by a statement against the backing store
StorageError == "exception raised by the backing store"
\* what becomes of the writes to the live graph made inside a
\* `with self.conn()` block that an exception leaves: the store writes them
\* through the engine on its own, in the block's transaction or in another
LiveWriteFates == { "kept", "rolled_back" }

\* mutant: the rows written before the exception stay in the tables
Rollback_KeepsWrites(before, written) == written
\* `with self.conn() as conn` left by an exception: the transaction's writes
\* to the tables are rolled back
Rollback(before, written) == before

\* mutant: undo() / redo() return silently when there is nothing to do
raise_no_history_Silent(st) == Result(st, NoError)
\* raise Exception("No changesets to undo" / "No changesets to redo")
raise_no_history(st) == Result(st, NoHistoryError)

(* ---------------------- latest_version, versions ----------------------- *)

NoVersion == [ id |-> 0, timestamp |-> NoTs ]

\* SELECT id, timestamp from changesets ORDER BY timestamp DESC LIMIT 1
latest_version(table, ord) ==
    LET rows == OrderByTimestamp(table, TRUE, ord)
    IN IF rows = << >> THEN NoVersion
       ELSE [ id |-> rows[1].id, timestamp |-> rows[1].timestamp ]

\* SELECT timestamp from changesets WHERE timestamp < :ts
\* ORDER BY timestamp DESC LIMIT 1; NoTs when there is no such row, where
\* the code's res[0] raises TypeError
version_before(table, ts) ==
    LET earlier == { t \in Timestamps(table) : t < ts }
    IN IF earlier = {} THEN NoTs ELSE MaxOf(earlier)

\* mutant: SELECT without DISTINCT
Distinct_All(s) == s
RECURSIVE Distinct(_)
\* SELECT DISTINCT: each value once, at its first place
Distinct(s) ==
    IF s = << >> THEN << >>
    ELSE LET front == Distinct(SubSeq(s, 1, Len(s) - 1))
             last == s[Len(s)]
         IN IF last \in Range(front) THEN front ELSE front \o << last >>

VersionOf(row) == [ id |-> row.id, graph |-> row.graph, timestamp |-> row.timestamp ]

\* versions(graph): SELECT DISTINCT id, graph, timestamp from changesets
\* [WHERE graph = :g] ORDER BY timestamp DESC
versions(table, graph, ord) ==
    LET rows == IF graph = NoGraph THEN table
                ELSE SelectRows(table, { r \in Range(table) : r.graph = graph })
        sorted == OrderByTimestamp(rows, TRUE, ord)
    IN Distinct([ i \in 1..Len(sorted) |-> VersionOf(sorted[i]) ])

\* the changesets a table holds
IdsOf(table) == { r.id : r \in Range(table) }

(* ------------------------------ _graph_at ------------------------------ *)

\* for one row: an is_insertion row adds its triple to alter_graph, another
\* row removes it (alter_graph.add / alter_graph.remove of a 3-tuple)
InvertRow(alter_graph, row) ==
    IF row.is_insertion
    THEN ConjunctiveAdd(alter_graph, pickle_loads(row.triple))
    ELSE ConjunctiveRemove(alter_graph, pickle_loads(row.triple))

RECURSIVE InvertRows(_, _)
InvertRows(alter_graph, rows) ==
    IF rows = << >> THEN alter_graph
    ELSE InvertRows(InvertRow(alter_graph, Head(rows)), Tail(rows))

\* mutant: the rows of the timestamp itself are read too (timestamp >= :ts)
RowsSince_Inclusive(table, timestamp, graph, ord) ==
    OrderByTimestamp(
        SelectRows(table, { r \in Range(table) :
                              /\ r.timestamp >= timestamp
                              /\ graph # NoGraph => r.graph = graph }),
        TRUE, ord)
\* SELECT * FROM changesets WHERE [graph = :g AND] timestamp > :ts
\* ORDER BY timestamp DESC
RowsSince(table, timestamp, graph, ord) ==
    OrderByTimestamp(
        SelectRows(table, { r \in Range(table) :
                              /\ r.timestamp > timestamp
                              /\ graph # NoGraph => r.graph = graph }),
        TRUE, ord)

\* _graph_at(alter_graph, conn, timestamp, graph); alter_graph is the
\* collection itself (undo, redo) or the fresh Graph of graph_at, a store of
\* one context
_graph_at(alter_graph, table, timestamp, graph, ord) ==
    InvertRows(alter_graph, RowsSince(table, timestamp, graph, ord))

\* graph_at(timestamp, graph): the triples of the Graph it returns
graph_at(st, timestamp, graph, ord) ==
    LET copied == IF graph # NoGraph THEN st.live[graph] ELSE AllTriples(st.live)
        g == [ c \in { DefaultCtx } |-> copied ]
    IN _graph_at(g, st.changesets, timestamp, graph, ord)[DefaultCtx]

\* the Graph a graph_at call returns, with the arguments of the call
Returned(timestamp, graph, ord, triples) ==
    [ timestamp |-> timestamp, graph |-> graph, ord |-> ord, triples |-> triples ]

\* what a graph_at call leaves: the collection's state and the Graph
GraphAtResult(st, g) ==
    [ live |-> st.live, changesets |-> st.changesets, redos |-> st.redos,
      returned |-> g ]

\* mutant: the rows graph_at has read are deleted from the active log
graph_at_call_Consumes(st, timestamp, graph, ord) ==
    GraphAtResult(
        State(st.live,
              SelectRows(st.changesets,
                         Range(st.changesets)
                           \ Range(RowsSince(st.changesets, timestamp, graph, ord))),
              st.redos),
        Returned(timestamp, graph, ord, graph_at(st, timestamp, graph, ord)))
\* mutant: graph_at alters the live graph instead of a copy
graph_at_call_InPlace(st, timestamp, graph, ord) ==
    GraphAtResult(
        State(_graph_at(st.live, st.changesets, timestamp, graph, ord),
              st.changesets, st.redos),
        Returned(timestamp, graph, ord, graph_at(st, timestamp, graph, ord)))
\* a call of graph_at(timestamp, graph): g = Graph() is filled and altered,
\* the collection is only read
graph_at_call(st, timestamp, graph, ord) ==
    GraphAtResult(st, Returned(timestamp, graph, ord,
                               graph_at(st, timestamp, graph, ord)))

(* ----------------------------- undo, redo ------------------------------ *)

\* mutant: the INSERT ... SELECT of a move is left out
MoveInto_Nothing(dst, src, id) == dst
\* INSERT INTO dst SELECT * FROM src WHERE id = :id
MoveInto(dst, src, id) == dst \o RowsOfId(src, id)

\* undo()
undo(st, ord) ==
    LET lv == latest_version(st.changesets, ord)
        before == version_before(st.changesets, lv.timestamp)
    IN IF lv = NoVersion THEN raise_no_history(st)
       ELSE IF before = NoTs THEN Result(Rollback(st, st), TypeError)
       ELSE Result(
              State(_graph_at(st.live, st.changesets, before, NoGraph, ord),
                    RowsNotOfId(st.changesets, lv.id),
                    MoveInto(st.redos, st.changesets, lv.id)),
              NoError)

\* for row in SELECT * from changesets WHERE id = :id: an is_insertion row
\* removes its triple from the changeset's graph, another row adds it
ReplayRow(store, graph, row) ==
    IF row.is_insertion
    THEN ContextRemove(store, graph, pickle_loads(row.triple))
    ELSE ContextAdd(store, graph, pickle_loads(row.triple))

RECURSIVE ReplayRows(_, _, _)
ReplayRows(store, graph, rows) ==
    IF rows = << >> THEN store
    ELSE ReplayRows(ReplayRow(store, graph, Head(rows)), graph, Tail(rows))

\* SELECT * from redos ORDER BY timestamp ASC LIMIT 1
redo_record(table, ord) == OrderByTimestamp(table, FALSE, ord)[1]

\* redo()
redo(st, ord) ==
    IF st.redos = << >> THEN raise_no_history(Rollback(st, st))
    ELSE LET rec == redo_record(st.redos, ord)
             moved == MoveInto(st.changesets, st.redos, rec.id)
             reverted == _graph_at(st.live, moved, rec.timestamp, NoGraph, ord)
         IN Result(
              State(ReplayRows(reverted, rec.graph, RowsOfId(moved, rec.id)),
                    moved,
                    RowsNotOfId(st.redos, rec.id)),
              NoError)

(* ------------------------------ Changeset ------------------------------ *)

\* no scope is open
NoCs == [ name |-> NoGraph, uid |-> 0, additions |-> << >>,
          deletions |-> << >>, scratch |-> {} ]

\* Changeset.__init__: a fresh id, empty lists, an empty graph of its own
Changeset(graph_name, id) ==
    [ name |-> graph_name, uid |-> id, additions |-> << >>,
      deletions |-> << >>, scratch |-> {} ]

\* Changeset.add
cs_add(c, triple) ==
    [ c EXCEPT !.additions = Append(@, triple), !.scratch = @ \cup { triple } ]

\* Changeset.remove
cs_remove(c, triple) ==
    [ c EXCEPT !.deletions = Append(@, triple), !.scratch = @ \ { triple } ]

(* -------------------------------- hooks -------------------------------- *)

\* the callables a caller registers, each with its __name__: two versions
\* of one hook
Hooks == { [ name |-> "validate", fn |-> "validate_v1" ],
           [ name |-> "validate", fn |-> "validate_v2" ] }

\* mutant: the registry is a list that grows with every registration
add_hook_Accumulates(hooks, hook) == Append(hooks, hook)
\* OrderedDict.__setitem__(hook.__name__, hook): a new key goes last, a key
\* already there keeps its place and gets the new value
add_hook(hooks, hook) ==
    IF \E i \in 1..Len(hooks) : hooks[i].name = hook.name
    THEN [ i \in 1..Len(hooks) |->
             IF hooks[i].name = hook.name THEN hook ELSE hooks[i] ]
    ELSE Append(hooks, hook)

\* mutant: the hooks are not called
Invoked_NotCalled(hooks, failing) == << >>
\* for hook in hooks.values(): hook(self), where the failing-th hook raises
\* (0: none does): the hooks that were called
Invoked(hooks, failing) ==
    IF failing = 0 THEN hooks ELSE SubSeq(hooks, 1, failing)

(* ---------------------------- new_changeset ---------------------------- *)

\* the rows of one changeset: its deletions as is_insertion rows, then its
\* additions as the others (the "backward" delta)
RowsOfChangeset(c, ts) ==
    [ i \in 1..Len(c.deletions) |-> Row(c.uid, ts, c.name, TRUE, c.deletions[i]) ]
    \o [ i \in 1..Len(c.additions) |-> Row(c.uid, ts, c.name, FALSE, c.additions[i]) ]

RECURSIVE RemoveAll(_, _, _)
\* for triple in buffered_removes: graph.remove(triple)
RemoveAll(store, graph, triples) ==
    IF triples = << >> THEN store
    ELSE RemoveAll(ContextRemove(store, graph, Head(triples)), graph, Tail(triples))

RECURSIVE AddAll(_, _, _)
\* with BatchAddGraph(graph): for triple in buffered_adds: graph.add(triple)
AddAll(store, graph, triples) ==
    IF triples = << >> THEN store
    ELSE AddAll(ContextAdd(store, graph, Head(triples)), graph, Tail(triples))

\* mutant: the buffered additions are applied before the removals
ApplyBuffered_AddsFirst(store, c) ==
    RemoveAll(AddAll(store, c.name, c.additions), c.name, c.deletions)
\* the buffered changes applied to the live graph, after the transaction
ApplyBuffered(store, c) ==
    AddAll(RemoveAll(store, c.name, c.deletions), c.name, c.additions)

\* what a commit returns to the model: the state, the exception and the
\* hooks that were called
CommitResult(st, error, pre, post) ==
    [ live |-> st.live, changesets |-> st.changesets, redos |-> st.redos,
      error |-> error, pre_invoked |-> pre, post_invoked |-> post ]

\* mutant: the commit deletes the redo log (DELETE FROM redos)
commit_ClearsRedos(st, c, ts, pre_hooks, post_hooks, pre_failing, post_failing) ==
    IF pre_failing # 0
    THEN CommitResult(st, PreHookError, Invoked(pre_hooks, pre_failing), << >>)
    ELSE CommitResult(
           State(ApplyBuffered(st.live, c),
                 st.changesets \o RowsOfChangeset(c, ts), << >>),
           IF post_failing # 0 THEN PostHookError ELSE NoError,
           Invoked(pre_hooks, 0), Invoked(post_hooks, post_failing))
\* new_changeset after `yield cs` returned normally: the rows are written in
\* the transaction, the pre-commit hooks run in it, then the buffered changes
\* go to the live graph and the post-commit hooks run. pre_failing and
\* post_failing name the hook that raises (0: none)
commit(st, c, ts, pre_hooks, post_hooks, pre_failing, post_failing) ==
    LET written == State(st.live, st.changesets \o RowsOfChangeset(c, ts), st.redos)
        applied == State(ApplyBuffered(written.live, c), written.changesets,
                         written.redos)
    IN IF pre_failing # 0
       THEN CommitResult(Rollback(st, written), PreHookError,
                         Invoked(pre_hooks, pre_failing), << >>)
       ELSE CommitResult(applied,
                         IF post_failing # 0 THEN PostHookError ELSE NoError,
                         Invoked(pre_hooks, 0), Invoked(post_hooks, post_failing))

\* the statements of a commit that can fail: the INSERT of each row, then,
\* after the transaction, the graph.remove of each buffered removal and the
\* batch of the buffered additions
CommitSteps(c) ==
    1..(Len(RowsOfChangeset(c, NoTs)) + Len(c.deletions)
          + (IF c.additions = << >> THEN 0 ELSE 1))

\* mutant: the buffered changes are written to the live graph inside the
\* transaction, before the rows are committed
commit_failing_LiveInTransaction(st, c, ts, pre_hooks, step) ==
    IF step <= Len(RowsOfChangeset(c, ts))
    THEN CommitResult(State(ApplyBuffered(st.live, c), st.changesets, st.redos),
                      StorageError, << >>, << >>)
    ELSE CommitResult(
           State(ApplyBuffered(st.live, c),
                 st.changesets \o RowsOfChangeset(c, ts), st.redos),
           StorageError, Invoked(pre_hooks, 0), << >>)
\* new_changeset when the step-th statement against the store fails: an
\* INSERT fails inside the transaction, which is rolled back; a write to the
\* live graph fails after the transaction has committed the rows and the
\* pre-commit hooks have run, with the removals before it applied
commit_failing(st, c, ts, pre_hooks, step) ==
    LET rows == RowsOfChangeset(c, ts)
        written == State(st.live, st.changesets \o rows, st.redos)
        removed == step - Len(rows) - 1
    IN IF step <= Len(rows)
       THEN CommitResult(Rollback(st, written), StorageError, << >>, << >>)
       ELSE CommitResult(
              State(RemoveAll(st.live, c.name, SubSeq(c.deletions, 1, removed)),
                    written.changesets, written.redos),
              StorageError, Invoked(pre_hooks, 0), << >>)

\* the statements of undo() that can fail: a SELECT before the live graph is
\* altered (1), the INSERT INTO redos (2), the DELETE FROM changesets (3)
UndoSteps == 1..3

\* mutant: the statements of undo() are not in one transaction, so the
\* INSERT INTO redos stays when the DELETE FROM changesets fails
undo_failing_NoTransaction(st, ord, step, fate) ==
    LET done == undo(st, ord)
    IN IF done.error # NoError THEN done
       ELSE IF step < 3 THEN Result(st, StorageError)
       ELSE Result(State(done.live, st.changesets, done.redos), StorageError)
\* undo() when one of its statements fails: the transaction is rolled back;
\* the live graph has been altered by _graph_at before statements 2 and 3
undo_failing(st, ord, step, fate) ==
    LET done == undo(st, ord)
    IN IF done.error # NoError THEN done
       ELSE IF step = 1 \/ fate = "rolled_back"
       THEN Result(Rollback(st, StateOf(done)), StorageError)
       ELSE Result(State(done.live, st.changesets, st.redos), StorageError)

\* the statements of redo() that can fail: the SELECT of the redo record (1),
\* the INSERT INTO changesets (2), the DELETE FROM redos (3), the SELECT of
\* _graph_at (4), the SELECT of the rows to replay (5)
RedoSteps == 1..5

\* redo() when one of its statements fails: the transaction is rolled back;
\* the live graph has been altered by _graph_at before statement 5
redo_failing(st, ord, step, fate) ==
    LET done == redo(st, ord)
        rec == redo_record(st.redos, ord)
    IN IF done.error # NoError /\ step > 1 THEN done
       ELSE IF step < 5 \/ fate = "rolled_back"
       THEN Result(Rollback(st, StateOf(done)), StorageError)
       ELSE Result(State(_graph_at(st.live, done.changesets, rec.timestamp,
                                   NoGraph, ord),
                         st.changesets, st.redos), StorageError)

\* mutant: the exception is swallowed and the scope's changes are committed
scope_exception_Commits(st, c) ==
    commit(st, c, now, precommit_hooks, postcommit_hooks, 0, 0)
\* new_changeset when the caller's code raises inside the scope: the
\* exception leaves the generator at `yield cs`, inside the transaction
scope_exception(st, c) ==
    CommitResult(Rollback(st, st), ScopeError, << >>, << >>)

(* ------------------------------- actions ------------------------------- *)

Here == State(live, changesets, redos)

\* what the caller saw of an operation: the exception, the hooks that were
\* called and, for a scope, the number of triples it had buffered
Outcome(op, error, pre, post, pending) ==
    [ op |-> op, error |-> error, pre_invoked |-> pre, post_invoked |-> post,
      pending |-> pending ]

\* the history of the behaviour, kept up to the first redo: the scopes left
\* without an exception, the commits that wrote rows, the undos that
\* succeeded and, while no undo has happened, the live graph each commit left
NoHist == [ commits |-> 0, written |-> 0, undos |-> 0, redone |-> FALSE,
            snap |-> << >> ]
\* the live graph a commit left, with the version that names it
Snapshot(c, ts, store) ==
    [ id |-> c.uid, timestamp |-> ts, graph |-> c.name, triples |-> store[c.name] ]
Redone == [ NoHist EXCEPT !.redone = TRUE ]

\* no graph_at call has returned yet
NoReturned == Returned(NoTs, NoGraph, "none", {})

Init ==
    /\ live = EmptyStore
    /\ changesets = << >>
    /\ redos = << >>
    /\ cs = NoCs
    /\ precommit_hooks = << >>
    /\ postcommit_hooks = << >>
    /\ now = 1
    /\ uid = 0
    /\ outcome = Outcome("init", NoError, << >>, << >>, 0)
    /\ hist = NoHist
    /\ scope_ts = NoTs
    /\ returned = NoReturned

\* with g.new_changeset(graph_name, ts) as cs: (ts = NoTs: ts is omitted)
OpenScopeAt(graph_name, ts, max_scopes) ==
    /\ cs = NoCs
    /\ uid < max_scopes
    /\ cs' = Changeset(graph_name, uid + 1)
    /\ uid' = uid + 1
    /\ scope_ts' = ts
    /\ outcome' = Outcome("open", NoError, << >>, << >>, 0)
    /\ UNCHANGED << live, changesets, redos, precommit_hooks, postcommit_hooks,
                    now, hist, returned >>

\* with g.new_changeset(graph_name) as cs:
OpenScope(graph_name, max_scopes) == OpenScopeAt(graph_name, NoTs, max_scopes)

PendingOps == Len(cs.additions) + Len(cs.deletions)

\* if ts is None: ts = datetime.now().isoformat()
CommitTs == IF scope_ts = NoTs THEN now ELSE scope_ts

\* cs.add(triple) inside the scope
CsAdd(triple) ==
    /\ cs # NoCs
    /\ Len(changesets) + Len(redos) + PendingOps < MaxRows
    /\ cs' = cs_add(cs, triple)
    /\ UNCHANGED << live, changesets, redos, precommit_hooks, postcommit_hooks,
                    now, uid, outcome, hist, scope_ts, returned >>

\* cs.remove(triple) inside the scope
CsRemove(triple) ==
    /\ cs # NoCs
    /\ Len(changesets) + Len(redos) + PendingOps < MaxRows
    /\ cs' = cs_remove(cs, triple)
    /\ UNCHANGED << live, changesets, redos, precommit_hooks, postcommit_hooks,
                    now, uid, outcome, hist, scope_ts, returned >>

\* the scope is left normally (ts=None: ts = datetime.now().isoformat()); the
\* clock is read as later than every timestamp stored so far
ExitScope(pre_failing, post_failing) ==
    /\ cs # NoCs
    /\ LET res == commit(Here, cs, CommitTs, precommit_hooks, postcommit_hooks,
                         pre_failing, post_failing)
           wrote == res.changesets # changesets
       IN /\ live' = res.live
          /\ changesets' = res.changesets
          /\ redos' = res.redos
          /\ outcome' = Outcome("commit", res.error, res.pre_invoked,
                                res.post_invoked, PendingOps)
          /\ hist' = IF hist.redone THEN hist
                      ELSE [ hist EXCEPT
                         !.commits = IF res.error = NoError THEN @ + 1 ELSE @,
                         !.written = IF wrote THEN @ + 1 ELSE @,
                         !.snap = IF wrote /\ hist.undos = 0
                                  THEN Append(@, Snapshot(cs, CommitTs, res.live))
                                  ELSE @ ]
    /\ cs' = NoCs
    /\ scope_ts' = NoTs
    /\ now' = IF changesets' # changesets THEN now + 1 ELSE now
    /\ UNCHANGED << precommit_hooks, postcommit_hooks, uid, returned >>

\* the caller's code raises inside the scope
RaiseInScope ==
    /\ cs # NoCs
    /\ LET res == scope_exception(Here, cs)
       IN /\ live' = res.live
          /\ changesets' = res.changesets
          /\ redos' = res.redos
          /\ outcome' = Outcome("commit", res.error, res.pre_invoked,
                                res.post_invoked, PendingOps)
    /\ cs' = NoCs
    /\ scope_ts' = NoTs
    /\ UNCHANGED << precommit_hooks, postcommit_hooks, now, uid, hist, returned >>

\* g.undo()
Undo(ord) ==
    /\ cs = NoCs
    /\ LET res == undo(Here, ord)
       IN /\ live' = res.live
          /\ changesets' = res.changesets
          /\ redos' = res.redos
          /\ outcome' = Outcome("undo", res.error, << >>, << >>, 0)
          /\ hist' = IF hist.redone \/ res.error # NoError THEN hist
                      ELSE [ hist EXCEPT !.undos = @ + 1, !.snap = << >> ]
    /\ UNCHANGED << cs, precommit_hooks, postcommit_hooks, now, uid, scope_ts,
                    returned >>

\* g.redo()
Redo(ord) ==
    /\ cs = NoCs
    /\ LET res == redo(Here, ord)
       IN /\ live' = res.live
          /\ changesets' = res.changesets
          /\ redos' = res.redos
          /\ outcome' = Outcome("redo", res.error, << >>, << >>, 0)
          /\ hist' = IF res.error = NoError THEN Redone ELSE hist
    /\ UNCHANGED << cs, precommit_hooks, postcommit_hooks, now, uid, scope_ts,
                    returned >>

\* the collection with no hook registered
Next ==
    \/ \E g \in ScopeGraphs : OpenScope(g, MaxChangesets)
    \/ \E t \in Triples : CsAdd(t)
    \/ \E t \in Triples : CsRemove(t)
    \/ ExitScope(0, 0)
    \/ RaiseInScope
    \/ \E ord \in TieOrders : Undo(ord)
    \/ \E ord \in TieOrders : Redo(ord)

Spec == Init /\ [][Next]_vars

\* g.add_precommit_hook(hook)
AddPrecommitHook(hook) ==
    /\ cs = NoCs
    /\ precommit_hooks' = add_hook(precommit_hooks, hook)
    /\ UNCHANGED << live, changesets, redos, cs, postcommit_hooks, now, uid,
                    outcome, hist, scope_ts, returned >>

\* g.add_postcommit_hook(hook)
AddPostcommitHook(hook) ==
    /\ cs = NoCs
    /\ postcommit_hooks' = add_hook(postcommit_hooks, hook)
    /\ UNCHANGED << live, changesets, redos, cs, precommit_hooks, now, uid,
                    outcome, hist, scope_ts, returned >>

\* the triple the callers of the collection with hooks commit
HookTriples == { <<"a", "p", "o">> }

\* the collection with hooks, any of which may raise when it is called
NextHooks ==
    \/ \E h \in Hooks : AddPrecommitHook(h)
    \/ \E h \in Hooks : AddPostcommitHook(h)
    \/ \E g \in ScopeGraphs : OpenScope(g, MaxHookScopes)
    \/ \E t \in HookTriples : CsAdd(t)
    \/ \E t \in HookTriples : CsRemove(t)
    \/ \E pre_failing \in 0..Len(precommit_hooks),
          post_failing \in 0..Len(postcommit_hooks) :
            ExitScope(pre_failing, post_failing)
    \/ RaiseInScope
    \/ \E ord \in TieOrders : Undo(ord)
    \/ \E ord \in TieOrders : Redo(ord)

SpecHooks == Init /\ [][NextHooks]_vars

\* the scope is left normally and the step-th statement of the commit fails
ExitScopeFailing(step) ==
    /\ cs # NoCs
    /\ step \in CommitSteps(cs)
    /\ LET res == commit_failing(Here, cs, CommitTs, precommit_hooks, step)
           wrote == res.changesets # changesets
       IN /\ live' = res.live
          /\ changesets' = res.changesets
          /\ redos' = res.redos
          /\ outcome' = Outcome("commit", res.error, res.pre_invoked,
                                res.post_invoked, PendingOps)
          /\ hist' = IF hist.redone THEN hist
                      ELSE [ hist EXCEPT
                         !.written = IF wrote THEN @ + 1 ELSE @,
                         !.snap = IF wrote /\ hist.undos = 0
                                  THEN Append(@, Snapshot(cs, CommitTs, res.live))
                                  ELSE @ ]
    /\ cs' = NoCs
    /\ scope_ts' = NoTs
    /\ now' = IF changesets' # changesets THEN now + 1 ELSE now
    /\ UNCHANGED << precommit_hooks, postcommit_hooks, uid, returned >>

\* g.undo() with a statement that fails
UndoFailing(ord, step, fate) ==
    /\ cs = NoCs
    /\ LET res == undo_failing(Here, ord, step, fate)
       IN /\ live' = res.live
          /\ changesets' = res.changesets
          /\ redos' = res.redos
          /\ outcome' = Outcome("undo", res.error, << >>, << >>, 0)
    /\ UNCHANGED << cs, precommit_hooks, postcommit_hooks, now, uid, hist,
                    scope_ts, returned >>

\* g.redo() with a statement that fails
RedoFailing(ord, step, fate) ==
    /\ cs = NoCs
    /\ LET res == redo_failing(Here, ord, step, fate)
       IN /\ live' = res.live
          /\ changesets' = res.changesets
          /\ redos' = res.redos
          /\ outcome' = Outcome("redo", res.error, << >>, << >>, 0)
    /\ UNCHANGED << cs, precommit_hooks, postcommit_hooks, now, uid, hist,
                    scope_ts, returned >>

\* the collection on a backing store whose statements may fail
NextStorage ==
    \/ \E g \in ScopeGraphs : OpenScope(g, MaxScopes)
    \/ \E t \in HookTriples : CsAdd(t)
    \/ \E t \in HookTriples : CsRemove(t)
    \/ ExitScope(0, 0)
    \/ \E step \in CommitSteps(cs) : ExitScopeFailing(step)
    \/ \E ord \in TieOrders : Undo(ord)
    \/ \E ord \in TieOrders : Redo(ord)
    \/ \E ord \in TieOrders, step \in UndoSteps, fate \in LiveWriteFates :
          UndoFailing(ord, step, fate)
    \/ \E ord \in TieOrders, step \in RedoSteps, fate \in LiveWriteFates :
          RedoFailing(ord, step, fate)

SpecStorage == Init /\ [][NextStorage]_vars

\* the callables registered with the collection whose hooks have two names
RegistryHooks == Hooks \cup { [ name |-> "audit", fn |-> "audit_v1" ] }

\* the collection whose callers register hooks of two names and commit
NextRegistry ==
    \/ \E h \in RegistryHooks : AddPrecommitHook(h)
    \/ \E h \in RegistryHooks : AddPostcommitHook(h)
    \/ \E g \in ScopeGraphs : OpenScope(g, MaxScopes)
    \/ \E t \in HookTriples : CsAdd(t)
    \/ \E pre_failing \in 0..Len(precommit_hooks),
          post_failing \in 0..Len(postcommit_hooks) :
            ExitScope(pre_failing, post_failing)

SpecRegistry == Init /\ [][NextRegistry]_vars

\* g.graph_at(timestamp, graph)
GraphAt(timestamp, graph, ord) ==
    /\ cs = NoCs
    /\ LET res == graph_at_call(Here, timestamp, graph, ord)
       IN /\ live' = res.live
          /\ changesets' = res.changesets
          /\ redos' = res.redos
          /\ returned' = res.returned
    /\ outcome' = Outcome("graph_at", NoError, << >>, << >>, 0)
    /\ UNCHANGED << cs, precommit_hooks, postcommit_hooks, now, uid, hist,
                    scope_ts >>

\* the caller adds a triple to the Graph that graph_at returned
ReturnedAdd(triple) ==
    /\ returned # NoReturned
    /\ returned' = [ returned EXCEPT !.triples = @ \cup { triple } ]
    /\ outcome' = Outcome("returned.add", NoError, << >>, << >>, 0)
    /\ UNCHANGED << live, changesets, redos, cs, precommit_hooks,
                    postcommit_hooks, now, uid, hist, scope_ts >>

\* the caller removes a triple from the Graph that graph_at returned
ReturnedRemove(triple) ==
    /\ returned # NoReturned
    /\ returned' = [ returned EXCEPT !.triples = @ \ { triple } ]
    /\ outcome' = Outcome("returned.remove", NoError, << >>, << >>, 0)
    /\ UNCHANGED << live, changesets, redos, cs, precommit_hooks,
                    postcommit_hooks, now, uid, hist, scope_ts >>

\* the collection whose callers also travel in time, to a version of the
\* active log or to before all of them, and use the Graph they get
NextGraphAt ==
    \/ \E g \in ScopeGraphs : OpenScope(g, MaxScopes)
    \/ \E t \in HookTriples : CsAdd(t)
    \/ \E t \in HookTriples : CsRemove(t)
    \/ ExitScope(0, 0)
    \/ \E ord \in TieOrders : Undo(ord)
    \/ \E ord \in TieOrders : Redo(ord)
    \/ \E timestamp \in Timestamps(changesets) \cup { 0 },
          g \in ScopeGraphs \cup { NoGraph }, ord \in TieOrders :
            GraphAt(timestamp, g, ord)
    \/ \E t \in HookTriples : ReturnedAdd(t)
    \/ \E t \in HookTriples : ReturnedRemove(t)

SpecGraphAt == Init /\ [][NextGraphAt]_vars

\* the timestamps a caller passes as ts
SuppliedTs == 1..MaxTs

\* the collection whose callers commit to any named graph, with ts omitted
\* or supplied
NextCallers ==
    \/ \E g \in GraphNames, ts \in SuppliedTs \cup { NoTs } :
          OpenScopeAt(g, ts, MaxScopes)
    \/ \E t \in HookTriples : CsAdd(t)
    \/ \E t \in HookTriples : CsRemove(t)
    \/ ExitScope(0, 0)
    \/ \E ord \in TieOrders : Undo(ord)
    \/ \E ord \in TieOrders : Redo(ord)

SpecCallers == Init /\ [][NextCallers]_vars

\* the collection whose callers commit to one graph, with ts omitted or
\* supplied, as many changesets as the collection with no hook
NextTies ==
    \/ \E g \in ScopeGraphs, ts \in SuppliedTs \cup { NoTs } :
          OpenScopeAt(g, ts, MaxChangesets)
    \/ \E t \in HookTriples : CsAdd(t)
    \/ \E t \in HookTriples : CsRemove(t)
    \/ ExitScope(0, 0)
    \/ \E ord \in TieOrders : Undo(ord)
    \/ \E ord \in TieOrders : Redo(ord)

SpecTies == Init /\ [][NextTies]_vars

(* ------------------------------- claims -------------------------------- *)

\* the number of rows of a table equal to row
Count(table, row) == Cardinality({ i \in 1..Len(table) : table[i] = row })
\* two tables hold the same rows (id, timestamp, graph, operation, triple),
\* each as many times
SameRows(a, b) ==
    /\ Len(a) = Len(b)
    /\ \A row \in Range(a) \cup Range(b) : Count(a, row) = Count(b, row)

RECURSIVE UndoTimes(_, _, _)
\* n successive calls of undo(), up to the first that raises
UndoTimes(st, n, ord) ==
    IF n = 0 THEN Result(st, NoError)
    ELSE LET earlier == UndoTimes(st, n - 1, ord)
         IN IF earlier.error # NoError THEN earlier
            ELSE undo(StateOf(earlier), ord)

\* C1: in every state with a non-empty active log, undo() and then redo()
\* leave every graph (the default graph too) with the triples it had and
\* both logs with the rows they had.
C1_UndoRedoInverse ==
    (cs = NoCs /\ changesets # << >>) =>
        \A ord \in TieOrders :
            LET undone == undo(Here, ord)
                redone == redo(StateOf(undone), ord)
            IN /\ redone.live = live
               /\ SameRows(redone.changesets, changesets)
               /\ SameRows(redone.redos, redos)

\* C2: a commit of a non-empty changeset to graph g, with a timestamp later
\* than all earlier ones, followed by undo() leaves g with the triples it had
\* before the commit and the changeset's rows in the redo log, none of them
\* in the active log.
C2_UndoRestoresPreCommit ==
    (cs # NoCs /\ PendingOps > 0) =>
        \A ord \in TieOrders :
            LET committed == commit(Here, cs, now, precommit_hooks,
                                    postcommit_hooks, 0, 0)
                undone == undo(StateOf(committed), ord)
            IN /\ undone.live[cs.name] = live[cs.name]
               /\ SameRows(undone.changesets, changesets)
               /\ SameRows(undone.redos, redos \o RowsOfChangeset(cs, now))

\* C3: after commits only, graph_at(v.timestamp, g) is the triple set that
\* live graph g held right after version v was committed, for every
\* committed version v.
C3_TimeTravelExact ==
    (cs = NoCs /\ hist.undos = 0 /\ ~hist.redone) =>
        \A ord \in TieOrders : \A i \in 1..Len(hist.snap) :
            graph_at(Here, hist.snap[i].timestamp, hist.snap[i].graph, ord)
                = hist.snap[i].triples

\* C4: after k >= 1 commits of non-empty changesets on a fresh collection,
\* k successive undo() calls succeed, the i-th leaving k - i versions, the
\* k-th leaving no triple and an empty active log, and the next one fails
\* with the no-history error.
C4_UndoReachesEmptyHistory ==
    (/\ cs = NoCs /\ hist.undos = 0 /\ ~hist.redone
     /\ hist.written >= 1 /\ hist.commits = hist.written) =>
        \A ord \in TieOrders :
            LET k == hist.written
                last == UndoTimes(Here, k, ord)
            IN /\ \A i \in 1..k :
                    /\ UndoTimes(Here, i, ord).error = NoError
                    /\ Len(versions(UndoTimes(Here, i, ord).changesets,
                                    NoGraph, ord)) = k - i
               /\ GraphLen(last.live) = 0
               /\ last.changesets = << >>
               /\ undo(StateOf(last), ord).error = NoHistoryError

\* C5 (as amended): while no redo has happened, versions() has one entry per
\* commit that wrote rows (a non-empty changeset whose transaction
\* committed) less one per successful undo, and the redo log holds as many
\* changesets as there were successful undos.
C5_HistoryBookkeeping ==
    ~hist.redone =>
        \A ord \in TieOrders :
            /\ Len(versions(changesets, NoGraph, ord)) = hist.written - hist.undos
            /\ Cardinality(IdsOf(redos)) = hist.undos

\* C5 (as stated): the same with k the number of successful commits, the
\* commits of empty changesets among them.
C5_HistoryBookkeepingAllCommits ==
    ~hist.redone =>
        \A ord \in TieOrders :
            /\ Len(versions(changesets, NoGraph, ord)) = hist.commits - hist.undos
            /\ Cardinality(IdsOf(redos)) = hist.undos

\* two commits that wrote rows, then a successful undo
C5_Witness ==
    /\ ~hist.redone /\ hist.written = 2 /\ hist.undos = 1
    /\ outcome.op = "undo" /\ outcome.error = NoError

\* C6: an exception raised inside a new_changeset scope, after any number
\* of cs.add / cs.remove calls, adds no row to either log, changes no live
\* graph, calls no hook and reaches the caller.
C6_RollbackOnException ==
    cs # NoCs =>
        LET res == scope_exception(Here, cs)
        IN /\ res.changesets = changesets
           /\ res.redos = redos
           /\ res.live = live
           /\ res.pre_invoked = << >>
           /\ res.post_invoked = << >>
           /\ res.error = ScopeError

\* a scope with buffered triples raised, with hooks of both kinds registered
C6_Witness ==
    /\ outcome.op = "commit" /\ outcome.error = ScopeError
    /\ outcome.pending > 0
    /\ precommit_hooks # << >> /\ postcommit_hooks # << >>
    /\ outcome.pre_invoked = << >> /\ outcome.post_invoked = << >>

\* C7: when a pre-commit hook raises during a commit, the active log holds
\* none of the changeset's rows, the live graphs and the redo log are as
\* before, no post-commit hook has run and the error reaches the caller.
C7_PreCommitHookAbort ==
    cs # NoCs =>
        \A pre_failing \in 1..Len(precommit_hooks) :
            \A post_failing \in 0..Len(postcommit_hooks) :
                LET res == commit(Here, cs, now, precommit_hooks,
                                  postcommit_hooks, pre_failing, post_failing)
                IN /\ res.changesets = changesets
                   /\ cs.uid \notin IdsOf(res.changesets)
                   /\ res.redos = redos
                   /\ res.live = live
                   /\ res.post_invoked = << >>
                   /\ res.error = PreHookError

\* a commit of a non-empty changeset was aborted by a pre-commit hook, with
\* a post-commit hook registered
C7_Witness ==
    /\ outcome.op = "commit" /\ outcome.error = PreHookError
    /\ outcome.pending > 0
    /\ outcome.pre_invoked # << >>
    /\ postcommit_hooks # << >>

\* C8: when a post-commit hook raises, the error reaches the caller and the
\* commit stands: the changeset's rows are in the active log, the live graph
\* has its deletions and additions applied, and the next undo() undoes that
\* changeset.
C8_PostCommitHookNoRollback ==
    (cs # NoCs /\ PendingOps > 0) =>
        \A post_failing \in 1..Len(postcommit_hooks) : \A ord \in TieOrders :
            LET res == commit(Here, cs, now, precommit_hooks,
                              postcommit_hooks, 0, post_failing)
                undone == undo(StateOf(res), ord)
            IN /\ res.error = PostHookError
               /\ res.changesets = changesets \o RowsOfChangeset(cs, now)
               /\ res.live = ApplyBuffered(live, cs)
               /\ undone.error = NoError
               /\ cs.uid \in IdsOf(undone.redos)
               /\ cs.uid \notin IdsOf(undone.changesets)

\* C9: undo() on an empty active log and redo() on an empty redo log each
\* raise an error and leave both logs and every live graph as they were.
C9_EmptyHistoryErrors ==
    cs = NoCs =>
        \A ord \in TieOrders :
            /\ changesets = << >> =>
                 LET res == undo(Here, ord)
                 IN res.error # NoError /\ StateOf(res) = Here
            /\ redos = << >> =>
                 LET res == redo(Here, ord)
                 IN res.error # NoError /\ StateOf(res) = Here

\* redo() was called with an empty redo log on a collection that holds
\* triples, and undo() would fail for want of history in no state but the
\* ones with an empty active log
C9_Witness ==
    /\ outcome.op = "redo" /\ outcome.error = NoHistoryError
    /\ redos = << >> /\ changesets # << >> /\ GraphLen(live) > 0

\* C10: a scope left normally with nothing buffered writes no row to either
\* log and leaves every live graph, versions() and latest_version as they
\* were; when no hook raises, every registered hook has been called.
C10_EmptyChangesetNoOp ==
    (cs # NoCs /\ PendingOps = 0) =>
        \A pre_failing \in 0..Len(precommit_hooks) :
            \A post_failing \in 0..Len(postcommit_hooks) :
                LET res == commit(Here, cs, now, precommit_hooks,
                                  postcommit_hooks, pre_failing, post_failing)
                IN /\ StateOf(res) = Here
                   /\ \A ord \in TieOrders :
                        /\ versions(res.changesets, NoGraph, ord)
                             = versions(changesets, NoGraph, ord)
                        /\ latest_version(res.changesets, ord)
                             = latest_version(changesets, ord)
                   /\ (pre_failing = 0 /\ post_failing = 0) =>
                        /\ res.error = NoError
                        /\ res.pre_invoked = precommit_hooks
                        /\ res.post_invoked = postcommit_hooks

\* an empty changeset was committed on a collection with history, and the
\* hooks of both kinds were called
C10_Witness ==
    /\ outcome.op = "commit" /\ outcome.error = NoError
    /\ outcome.pending = 0
    /\ outcome.pre_invoked # << >> /\ outcome.post_invoked # << >>
    /\ changesets # << >>

\* C11: of any two changesets in the logs the one committed later (the one
\* with the larger id) has a timestamp at least that of the other, whether
\* ts was omitted or supplied, and latest_version is the changeset of the
\* active log that was committed last.
C11_TotalOrder ==
    /\ \A r1, r2 \in Range(changesets) \cup Range(redos) :
          r1.id < r2.id => r1.timestamp <= r2.timestamp
    /\ (cs = NoCs /\ changesets # << >>) =>
          \A ord \in TieOrders :
              latest_version(changesets, ord).id = MaxOf(IdsOf(changesets))

\* the rows of the active log that versions(graph) reads
RowsOfGraph(table, graph) ==
    { r \in Range(table) : graph = NoGraph \/ r.graph = graph }

\* C18: versions(graph) has one (id, graph, timestamp) entry for each
\* changeset of the active log (of that graph, when one is given) and no
\* other entry, none of a changeset of the redo log, and the timestamps do
\* not increase along the list.
C18_VersionsListing ==
    \A ord \in TieOrders : \A g \in GraphNames \cup { NoGraph } :
        LET v == versions(changesets, g, ord)
            rows == RowsOfGraph(changesets, g)
        IN /\ Len(v) = Cardinality({ r.id : r \in rows })
           /\ Range(v) = { VersionOf(r) : r \in rows }
           /\ \A i \in 1..Len(v) : v[i].id \notin IdsOf(redos)
           /\ \A i, j \in 1..Len(v) : i < j => v[i].timestamp >= v[j].timestamp

\* the active log holds two changesets of different graphs, one of them
\* with two rows
C18_Witness ==
    /\ cs = NoCs /\ Len(changesets) = 3
    /\ \E r1, r2 \in Range(changesets) : r1.graph # r2.graph

\* the rows of both logs
AllRows == changesets \o redos

HeldAt(g, t) ==
    LET upto == { i \in 1..Len(hist.snap) :
                    hist.snap[i].graph = g /\ hist.snap[i].timestamp <= t }
    IN IF upto = {} THEN {} ELSE hist.snap[MaxOf(upto)].triples

\* C16: after commits only, for t1 < t2 <= now the triple counts of
\* graph_at(t2, g) and graph_at(t1, g) differ by the net number of triples
\* the changesets of g with a timestamp in (t1, t2] added to and removed
\* from g.
C16_Monotonicity ==
    (cs = NoCs /\ hist.undos = 0 /\ ~hist.redone) =>
        \A ord \in TieOrders : \A g \in ScopeGraphs : \A t1, t2 \in 0..now :
            t1 < t2 =>
                Cardinality(graph_at(Here, t2, g, ord))
                  - Cardinality(graph_at(Here, t1, g, ord))
                = Cardinality(HeldAt(g, t2)) - Cardinality(HeldAt(g, t1))

\* C20: a scope on graph g left normally leaves g with its triples less the
\* pending deletions plus the pending additions, a triple both deleted and
\* added being present, and leaves every other graph as it was.
C20_DeletionsBeforeAdditions ==
    cs # NoCs =>
        LET res == commit(Here, cs, CommitTs, precommit_hooks, postcommit_hooks,
                          0, 0)
        IN /\ res.live[cs.name]
                = (live[cs.name] \ Range(cs.deletions)) \cup Range(cs.additions)
           /\ \A c \in Contexts \ { cs.name } : res.live[c] = live[c]
           /\ \A t \in Range(cs.deletions) \cap Range(cs.additions) :
                t \in res.live[cs.name]

\* the changeset committed last removed and added the same triple, which
\* the graph holds
C20_Witness ==
    /\ outcome.op = "commit" /\ outcome.error = NoError
    /\ \E r1, r2 \in Range(changesets) :
          /\ r1.id = uid /\ r2.id = uid /\ r1.triple = r2.triple
          /\ r1.is_insertion /\ ~r2.is_insertion
          /\ pickle_loads(r1.triple) \in live[r1.graph]

C15_GraphAtIsolated ==
    [][ (returned' # returned \/ outcome'.op = "graph_at") =>
            UNCHANGED << live, changesets, redos >> ]_vars

\* graph_at returned triples other than those of the live graph it copied
C15_Witness ==
    /\ outcome.op = "graph_at" /\ returned.graph # NoGraph
    /\ returned.triples # live[returned.graph]

\* no two hooks of a registry have the same name
UniqueNames(hooks) ==
    \A i, j \in 1..Len(hooks) : hooks[i].name = hooks[j].name => i = j
\* the registry after a registration: the hook registered is in it, no other
\* hook of its name is, and the hooks of other names are those of before
Registered(before, after) ==
    \E h \in RegistryHooks :
        /\ h \in Range(after)
        /\ \A x \in Range(after) : x.name = h.name => x = h
        /\ { x \in Range(after) : x.name # h.name }
             = { x \in Range(before) : x.name # h.name }
\* every hook of the registry was called exactly once
InvokedOnce(hooks, invoked) == \A h \in Range(hooks) : Count(invoked, h) = 1
\* no hook was called twice and none that is not in the registry
NoneStale(hooks, invoked) ==
    /\ Range(invoked) \subseteq Range(hooks)
    /\ \A h \in Range(invoked) : Count(invoked, h) = 1
\* a step that registers a hook changes the registry of its kind as a
\* keyed registration does and leaves the other registry alone
KeyedRegistration ==
    /\ UniqueNames(precommit_hooks') /\ UniqueNames(postcommit_hooks')
    /\ precommit_hooks' # precommit_hooks =>
          /\ Registered(precommit_hooks, precommit_hooks')
          /\ postcommit_hooks' = postcommit_hooks
    /\ postcommit_hooks' # postcommit_hooks =>
          /\ Registered(postcommit_hooks, postcommit_hooks')
          /\ precommit_hooks' = precommit_hooks
\* the step is a scope left normally: the commit reaches the hooks
CommitStep == cs # NoCs /\ cs' = NoCs /\ outcome'.error # ScopeError

\* C17 (as amended): a registration replaces the hook of the same name of
\* its kind and leaves the other kind alone; a commit calls no hook twice
\* and none that was replaced; it calls every pre-commit hook once unless a
\* pre-commit hook raised, and every post-commit hook once unless a hook
\* raised; after a pre-commit hook raised no post-commit hook is called.
C17_HooksKeyedByName ==
    [][ /\ KeyedRegistration
        /\ CommitStep =>
              /\ NoneStale(precommit_hooks, outcome'.pre_invoked)
              /\ NoneStale(postcommit_hooks, outcome'.post_invoked)
              /\ outcome'.error # PreHookError =>
                    InvokedOnce(precommit_hooks, outcome'.pre_invoked)
              /\ outcome'.error = NoError =>
                    InvokedOnce(postcommit_hooks, outcome'.post_invoked)
              /\ outcome'.error = PreHookError => outcome'.post_invoked = << >>
      ]_vars

\* C17 (as stated): the same, with every registered pre-commit hook called
\* exactly once on every commit and every registered post-commit hook on
\* every commit whose pre-commit hooks passed, whether or not a hook raised.
C17_HooksInvokedOnEveryCommit ==
    [][ /\ KeyedRegistration
        /\ CommitStep =>
              /\ InvokedOnce(precommit_hooks, outcome'.pre_invoked)
              /\ outcome'.error # PreHookError =>
                    InvokedOnce(postcommit_hooks, outcome'.post_invoked)
      ]_vars

\* a commit called two pre-commit hooks of different names, the second
\* version of one of them, and a post-commit hook
C17_Witness ==
    /\ outcome.op = "commit" /\ outcome.error = NoError
    /\ Len(outcome.pre_invoked) = 2 /\ outcome.post_invoked # << >>
    /\ \E h \in Range(outcome.pre_invoked) : h.fn = "validate_v2"

\* C19: a commit, undo or redo that ends with a failure of the backing
\* store leaves the active log, the redo log and every live graph as they
\* were before the operation.
C19_StorageFailureNoPartialEffect ==
    [][ outcome'.error = StorageError =>
            UNCHANGED << live, changesets, redos >> ]_vars

\* the changeset that undo() moved into the redo log last, of those in it:
\* the one of the last row of the table
LastUndone == redos[Len(redos)].id

\* C21: in every state with a non-empty redo log the changeset redo()
\* selects is the one that undo() moved into the redo log most recently.
C21_RedoPicksLastUndone ==
    (cs = NoCs /\ redos # << >>) =>
        \A ord \in TieOrders : redo_record(redos, ord).id = LastUndone

\* C22: in every state with a non-empty redo log redo() moves the rows of
\* the changeset it selects back to the active log and changes the live
\* graphs by replaying those rows on the changeset's graph and in no other
\* way.
C22_RedoReplaysOnlyItsRows ==
    (cs = NoCs /\ redos # << >>) =>
        \A ord \in TieOrders :
            LET rec == redo_record(redos, ord)
                res == redo(Here, ord)
            IN /\ res.error = NoError
               /\ SameRows(res.changesets, changesets \o RowsOfId(redos, rec.id))
               /\ SameRows(res.redos, RowsNotOfId(redos, rec.id))
               /\ res.live = ReplayRows(live, rec.graph, RowsOfId(redos, rec.id))

\* the changesets of graph g in the active log applied to the empty graph in
\* ascending timestamp order, each removing its deletions and then adding
\* its additions
ReplayOfLog(g, ord) ==
    ReplayRows(EmptyStore, g,
               OrderByTimestamp(SelectRows(changesets, RowsOfGraph(changesets, g)),
                                FALSE, ord))[g]

\* C24: between scopes the triples of every named graph are those that the
\* replay of the graph's changesets of the active log gives.
C24_LiveIsReplayOfLog ==
    cs = NoCs =>
        \A g \in GraphNames : live[g] = ReplayOfLog(g, "rowid_asc")

\* C30: in every state with a non-empty redo log redo() and then undo()
\* succeed, the undo moves the changeset that was redone back to the redo
\* log, and the live graphs and both logs are as before the redo.
C30_RedoUndoIdentity ==
    (cs = NoCs /\ redos # << >>) =>
        \A ord \in TieOrders :
            LET rec == redo_record(redos, ord)
                redone == redo(Here, ord)
                undone == undo(StateOf(redone), ord)
            IN /\ redone.error = NoError /\ undone.error = NoError
               /\ latest_version(redone.changesets, ord).id = rec.id
               /\ undone.live = live
               /\ SameRows(undone.changesets, changesets)
               /\ SameRows(undone.redos, redos)

\* C23: an undo() that succeeds leaves every graph other than the graph of
\* the changeset it undoes (the default graph too) with the triples it had,
\* and the triples that changeset deleted and did not add are in its graph.
C23_UndoWithinItsGraph ==
    (cs = NoCs /\ changesets # << >>) =>
        \A ord \in TieOrders :
            LET rows == RowsOfId(changesets, latest_version(changesets, ord).id)
                g == rows[1].graph
                added == { pickle_loads(r.triple) :
                             r \in { x \in Range(rows) : ~x.is_insertion } }
                res == undo(Here, ord)
            IN res.error = NoError =>
                 /\ \A c \in Contexts \ { g } : res.live[c] = live[c]
                 /\ \A r \in Range(rows) :
                      (r.is_insertion /\ pickle_loads(r.triple) \notin added)
                          => pickle_loads(r.triple) \in res.live[g]

\* C27: the rows that an undo() which finds an earlier version
\* reverse-applies to the live graph are the rows of the changeset it moves
\* to the redo log, the one latest_version reports.
C27_UndoReversesWhatItMoves ==
    (cs = NoCs /\ changesets # << >>) =>
        \A ord \in TieOrders :
            LET lv == latest_version(changesets, ord)
                before == version_before(changesets, lv.timestamp)
            IN before # NoTs =>
                 Range(RowsSince(changesets, before, NoGraph, ord))
                   = Range(RowsOfId(changesets, lv.id))

\* C25: a scope's exit that changes the live graph, whether it completes or
\* stops at a failing statement, leaves all rows of the changeset in the
\* active log.
C25_LogBeforeLiveGraph ==
    [][ (cs # NoCs /\ cs' = NoCs /\ live' # live) =>
            /\ RowsOfChangeset(cs, CommitTs) # << >>
            /\ changesets' = changesets \o RowsOfChangeset(cs, CommitTs) ]_vars

\* a commit stopped after its rows were committed and before its additions
\* reached the live graph
C25_Witness ==
    /\ outcome.op = "commit" /\ outcome.error = StorageError
    /\ \E r \in Range(changesets) :
          /\ r.id = uid /\ ~r.is_insertion
          /\ pickle_loads(r.triple) \notin live[r.graph]

\* C26: after every step no changeset has rows in both logs, the rows of
\* one changeset have one timestamp and one graph, and the rows of every
\* changeset that was in the logs are the rows it had, each as many times;
\* an undo or redo that moves rows moves all rows of one changeset.
C26_ChangesetInOneLog ==
    [][ /\ IdsOf(changesets') \cap IdsOf(redos') = {}
        /\ \A r1, r2 \in Range(AllRows') :
              r1.id = r2.id =>
                  r1.timestamp = r2.timestamp /\ r1.graph = r2.graph
        /\ \A id \in IdsOf(AllRows) :
              SameRows(RowsOfId(AllRows', id), RowsOfId(AllRows, id))
        /\ (outcome'.op \in { "undo", "redo" } /\ changesets' # changesets) =>
              \E id \in IdsOf(AllRows) :
                  \/ /\ changesets' = RowsNotOfId(changesets, id)
                     /\ redos' = redos \o RowsOfId(changesets, id)
                  \/ /\ redos' = RowsNotOfId(redos, id)
                     /\ changesets' = changesets \o RowsOfId(redos, id) ]_vars

\* an undo() of the later of two changesets stopped at a failing statement
C26_Witness ==
    /\ outcome.op = "undo" /\ outcome.error = StorageError
    /\ Cardinality(IdsOf(changesets)) >= 2

\* C28: a scope left normally leaves the redo log as it is; with a
\* non-empty redo log a redo() after that commit succeeds and puts the
\* changeset it selects into the active log next to the one just committed.
C28_CommitKeepsRedoLog ==
    cs # NoCs =>
        LET res == commit(Here, cs, CommitTs, precommit_hooks, postcommit_hooks,
                          0, 0)
        IN /\ res.redos = redos
           /\ redos # << >> =>
                \A ord \in TieOrders :
                    LET rec == redo_record(redos, ord)
                        redone == redo(StateOf(res), ord)
                    IN /\ redone.error = NoError
                       /\ rec.id \in IdsOf(redone.changesets)
                       /\ rec.id \notin IdsOf(redone.redos)
                       /\ PendingOps > 0 => cs.uid \in IdsOf(redone.changesets)

\* a redo() re-activated a changeset that was undone before the latest
\* changeset of the active log was committed
C28_Witness ==
    /\ outcome.op = "redo" /\ outcome.error = NoError
    /\ changesets[Len(changesets)].id < MaxOf(IdsOf(changesets))

\* the triples the scope has added or removed
Touched(c) == Range(c.additions) \cup Range(c.deletions)

\* C29: after the commit a triple touched in the scope is in live graph g
\* exactly if it is in the changeset's scratch view at scope exit.
C29_CommitMatchesScratchView ==
    cs # NoCs =>
        LET res == commit(Here, cs, CommitTs, precommit_hooks, postcommit_hooks,
                          0, 0)
        IN \A t \in Touched(cs) : t \in res.live[cs.name] <=> t \in cs.scratch

====
